---- MODULE Spec2Model ----
(***************************************************************************)
(* Token evaluation pipeline of pumpfun-telegram-bot (src/index.js).       *)
(*                                                                         *)
(* src/index.js holds three programs, one after the other:                 *)
(*   "min"   lines    1-88    the minimal poller (pollOnce, Set stub)      *)
(*   "poll"  lines  129-533   the polling bot (processToken, markProcessed)*)
(*   "hook"  lines  635-1062  the webhook bot (processTokenEvent)          *)
(* A deployment runs one of them; `variant` says which.                    *)
(*                                                                         *)
(* Every `await` of an evaluation is a suspension point, so an evaluation  *)
(* is a sequence of steps (pc) that other evaluations and the passing of   *)
(* time interleave with; a call to Upstash may fail each time it is made.  *)
(*                                                                         *)
(* Percentages are integers counting 1/10000 of a percent (PctUnit per     *)
(* percent): the finest grain the code produces (toFixed(4)).              *)
(*                                                                         *)
(* Record fields are written in the order in which TLC sorts them (the     *)
(* order in which the names first occur in the module), so that the        *)
(* workers of a run never reorder a record they share.                     *)
(***************************************************************************)
EXTENDS Integers, Sequences, FiniteSets, TLC

VARIABLES
    variant,    \* which of the three programs runs: "min", "poll", "hook"
    backend,    \* the dedup ledger: "redis" (Upstash) or "memory" (Set stub / Map)
    env,        \* configuration: [moralis, helius, secret, feedUrl : BOOLEAN] (API
                \* keys, webhook secret and feed URL set or not)
    world,      \* what the feed / the data providers say about the token
    ledger,     \* key -> [ttl, expired, sends]; the keys present are its DOMAIN;
                \* sends counts the Telegram sends of the entry's TTL window
    isPolling,  \* the polling bot's re-entrancy flag
    pc,         \* worker -> position of its evaluation
    loc,        \* worker -> locals and record of its current / last evaluation
    calc,       \* one application of percentBigInt: arguments and results
    probe,      \* the ledger keys of two candidate tokens, compared
    top,        \* one computation of top10Percent: holder list, supply, results
    ext         \* one call of extractTokensFromHelius: payload, list, evaluations

vars == <<variant, backend, env, world, ledger, isPolling, pc, loc, calc, probe, top, ext>>

pipeVars == <<variant, backend, env, world, ledger, isPolling, pc, loc>>

-----------------------------------------------------------------------------
(* Bounds of the model *)

MaxWorkers == 2     \* evaluations that can be in flight at once
CountCap == 2       \* the send counter of a ledger entry saturates here
MaxAmount == 12     \* percentBigInt: amounts 0..MaxAmount
MaxTotal == 7       \* percentBigInt: totals up to MaxTotal
NegTotals == 2      \* percentBigInt: totals down to -NegTotals
MaxScale == 3       \* percentBigInt: scale factors 1..MaxScale
MaxBatch == 2       \* occurrences of the token in one ingestion batch

Workers == 1..MaxWorkers

-----------------------------------------------------------------------------
(* Program constants *)

Nil == -999999              \* null / undefined / absent
NotAnInteger == -888888     \* a balance such as '12.5' or 'n/a': BigInt() throws on it
SEEN_TTL_SEC == 3600        \* { ex: 3600 }
DEDUPE_TTL_SEC == 86400     \* 60 * 60 * 24
MIN_MARKETCAP == 15000
MIN_HOLDERS == 30
MAX_TOP10_PERCENT == 20
MAX_DEV_PERCENT == 3
TTL_NO_METADATA == 1200     \* 60 * 20
TTL_NO_HOLDERS == 3600      \* 60 * 60
TTL_NO_SUPPLY == 3600       \* 60 * 60
TTL_REJECTED == 21600       \* 60 * 60 * 6
TTL_NOTIFIED == 86400       \* 60 * 60 * 24
minMarketCap == 15000
minHolders == 30
maxTop10Percent == 20
maxDevPercent == 3
TopN == 10                  \* slice(0, 10) / Math.min(10, ...)

PctUnit == 100 * 100        \* model units per percent

-----------------------------------------------------------------------------
(* JavaScript values *)

Present(x) == x # Nil

\* JS truthiness of a number-or-absent value: null, undefined and 0 are falsy
Truthy(x) == x # Nil /\ x # 0

\* x < c, x > c, x <= c with x possibly undefined: undefined converts to NaN
\* and every comparison with NaN is false
JsLt(x, c) == Present(x) /\ x < c
JsGt(x, c) == Present(x) /\ x > c
JsLe(x, c) == Present(x) /\ x <= c

Min2(a, b) == IF a < b THEN a ELSE b

RECURSIVE SumBalances(_)
SumBalances(list) ==
    IF list = <<>> THEN 0
    ELSE (IF Present(Head(list).balance) THEN Head(list).balance ELSE 0)
         + SumBalances(Tail(list))

-----------------------------------------------------------------------------
(* percentBigInt *)

\* BigInt(x || '0'): 0n, null and undefined are falsy and give 0n
BigIntOrZero(x) == IF Truthy(x) THEN x ELSE 0

\* BigInt division truncates toward zero
BigIntDiv(n, d) ==
    LET an == IF n < 0 THEN -n ELSE n
        ad == IF d < 0 THEN -d ELSE d
        q  == an \div ad
    IN  IF (n < 0) = (d < 0) THEN q ELSE -q

\* Number(scaled) / 100, in model units
HundredthsToPct(scaled) == scaled * (PctUnit \div 100)

\* a rounding variant of percentBigInt (round half up instead of truncating)
percentBigIntRounded(numer, denom) ==
    LET n == BigIntOrZero(numer)
        d == BigIntOrZero(denom)
    IN  IF d = 0 THEN 0
        ELSE HundredthsToPct(BigIntDiv(2 * n * 10000 + d, 2 * d))

\* a variant of percentBigInt that divides before it multiplies
percentBigIntDivFirst(numer, denom) ==
    LET n == BigIntOrZero(numer)
        d == BigIntOrZero(denom)
    IN  IF d = 0 THEN 0
        ELSE HundredthsToPct(BigIntDiv(10000, d) * n)

\* percentBigInt(numer, denom): scaled = (n * 10000n) / d; Number(scaled) / 100.
\* The arguments the program passes are BigInts, so BigInt() never throws on them.
percentBigInt(numer, denom) ==
    LET n == BigIntOrZero(numer)
        d == BigIntOrZero(denom)
    IN  IF d = 0 THEN 0
        ELSE HundredthsToPct(BigIntDiv(n * 10000, d))

CalcInputs ==
    [amount : 0..MaxAmount, total : (0 - NegTotals)..MaxTotal, k : 1..MaxScale]

CalcIdle(args) == [args |-> args, done |-> FALSE, out |-> 0, outScaled |-> 0]

\* apply percentBigInt to the arguments, and to both arguments scaled by k
CalcApply ==
    /\ ~calc.done
    /\ calc' = [calc EXCEPT
                  !.done = TRUE,
                  !.out = percentBigInt(calc.args.amount, calc.args.total),
                  !.outScaled = percentBigInt(calc.args.k * calc.args.amount,
                                              calc.args.k * calc.args.total)]
    /\ UNCHANGED <<pipeVars, probe, top, ext>>

\* take the next arguments
CalcAgain ==
    /\ calc.done
    /\ \E args \in CalcInputs : calc' = CalcIdle(args)
    /\ UNCHANGED <<pipeVars, probe, top, ext>>

-----------------------------------------------------------------------------
(* The token and what the data sources say about it *)

\* the candidate token every evaluation is about
theToken == [chain |-> "Solana", address |-> "MintA"]

\* String.prototype.toLowerCase on the strings of the model
toLowerCase(s) ==
    CASE s = "Solana" -> "solana"
      [] s = "Ethereum" -> "ethereum"
      [] s = "MintA" -> "minta"
      [] s = "MintB" -> "mintb"
      [] s = "Dev" -> "dev"
      [] OTHER -> s

\* a || b on strings: a unless it is empty or missing
orElse(a, b) == IF a # "" THEN a ELSE b

\* a webhook payload with none of the fields extractTokensFromHelius reads; a
\* missing string is "", a missing array is empty
EmptyPayload ==
    [chain |-> "", mint |-> "", mintAuthority |-> "", creator |-> "",
     tokenAddress |-> "", tokens |-> <<>>, transactions |-> <<>>]

\* holder lists a holder provider may return (balances in raw units)
HolderLists ==
    { <<>>,
      << [balance |-> 12, address |-> "whale"], [balance |-> 3, address |-> "dev"] >>,
      << [balance |-> 2, address |-> "lp"], [balance |-> 1, address |-> "dev"] >>,
      << [balance |-> 2, address |-> "lp"], [balance |-> 18, address |-> "whale"] >> }

SupplyVals == {Nil, 0, 100}

\* the creator / mint authority named by the token or event; "" when none is given
Creators == {"", "dev"}

NoFeed == [marketcap |-> Nil, holders |-> Nil, top10 |-> Nil, dev |-> Nil, volume |-> Nil]

\* token records of the feed: each metric missing, failing or just passing
Feeds ==
    [marketcap : {Nil, MIN_MARKETCAP - 1, MIN_MARKETCAP},
     holders   : {Nil, MIN_HOLDERS - 1, MIN_HOLDERS},
     top10     : {Nil, 15 * PctUnit, MAX_TOP10_PERCENT * PctUnit},
     dev       : {Nil, 1 * PctUnit, MAX_DEV_PERCENT * PctUnit},
     volume    : {Nil, 0, 500}]

NoMeta == [found |-> FALSE, totalSupply |-> Nil]
NoHolders == [total |-> 0, holders |-> <<>>, form |-> "null"]

\* answers of the holders endpoint: null, a bare array, or { total, result }
HolderAnswers ==
    {NoHolders}
    \cup [total : {0}, holders : HolderLists, form : {"array"}]
    \cup [total : {MIN_HOLDERS - 1, MIN_HOLDERS}, holders : HolderLists, form : {"object"}]

\* a holders answer with a balance that is no integer
MalformedHolders ==
    [total |-> 0, holders |-> << [balance |-> NotAnInteger, address |-> "whale"] >>,
     form |-> "array"]

\* market data of the price endpoint (marketcap and volume of a Feeds record)
MarketFeeds == { f \in Feeds : f.holders = Nil /\ f.top10 = Nil /\ f.dev = Nil }

World(feed, creator, meta, holdersRaw) ==
    [creator |-> creator, feed |-> feed, meta |-> meta, holdersRaw |-> holdersRaw]

\* the minimal poller and the polling bot read the token record of the feed
FeedWorlds == { World(f, "", NoMeta, NoHolders) : f \in Feeds }

\* the webhook bot asks the providers; data a run cannot reach is left out
HookWorlds ==
    { World(NoFeed, c, NoMeta, NoHolders) : c \in Creators }
    \cup { World(NoFeed, c, [found |-> TRUE, totalSupply |-> 100], NoHolders) : c \in Creators }
    \cup { World(NoFeed, c, [found |-> TRUE, totalSupply |-> s], h) :
             c \in Creators, s \in {Nil, 0}, h \in HolderAnswers \ {NoHolders} }
    \cup { World(f, c, [found |-> TRUE, totalSupply |-> 100], h) :
             f \in MarketFeeds, c \in Creators, h \in HolderAnswers \ {NoHolders} }
    \cup { World(NoFeed, "", [found |-> TRUE, totalSupply |-> 100], MalformedHolders) }

-----------------------------------------------------------------------------
(* The dedup ledger *)

\* `seen:${token.address}`
seenKey(token) == <<"seen", token.address>>

\* `processed:${address}`
processedKey(address) == <<"processed", address>>

\* `processed:${c}:${a}` with c, a the lowercased chain and address
eventKey(chain, address) ==
    <<"processed", toLowerCase(IF chain = "" THEN "unknown" ELSE chain), toLowerCase(address)>>

\* the ledger key the running program uses for a token
KeyOf(token) ==
    CASE variant = "min"  -> seenKey(token)
      [] variant = "poll" -> processedKey(token.address)
      [] OTHER            -> eventKey(token.chain, token.address)

\* an existence check that never finds the key
ledgerHasNever(key) == FALSE

\* redis.get(key) / cache.has(key) / inMemoryProcessed.has(key): Redis drops a
\* key when its TTL runs out; the Set and the Map answer from what they store
ledgerHas(key) == key \in DOMAIN ledger

\* an entry past its TTL that the store still holds counts as no entry here
Unexpired(key) == key \in DOMAIN ledger /\ ~ledger[key].expired

NewEntry(ttl) == [expired |-> FALSE, ttl |-> ttl, sends |-> 0]

\* redis.set(key, '1', { ex: ttl }): creates or overwrites, the TTL starts again
redisSet(key, ttl) ==
    [k \in DOMAIN ledger \cup {key} |->
        IF k = key
        THEN [NewEntry(ttl) EXCEPT !.sends = IF Unexpired(key) THEN ledger[key].sends ELSE 0]
        ELSE ledger[k]]

\* cache.add(key): the Set stub keeps no value and no expiry
stubSet(key, ttl) ==
    [k \in DOMAIN ledger \cup {key} |->
        IF k = key /\ key \notin DOMAIN ledger THEN NewEntry(ttl) ELSE ledger[k]]

\* redis.set(key, '1', { ex, nx: true }) / inMemoryProcessed.set after has():
\* creates the key only when it is not there
setIfAbsent(key, ttl) ==
    IF key \in DOMAIN ledger THEN ledger ELSE redisSet(key, ttl)

RemoveKeys(keys) == [k \in DOMAIN ledger \ keys |-> ledger[k]]

\* the sink was invoked for `key`: counted on the entry if one is unexpired
CountSend(key) ==
    IF Unexpired(key)
    THEN [ledger EXCEPT ![key].sends = Min2(@ + 1, CountCap)]
    ELSE ledger

\* `led` is the ledger after the mark of an evaluation with locals l: a send made
\* just before the mark opened the entry's window and is counted on the entry
CountOpeningSend(led, key, l) ==
    IF l.dispatched /\ ~Unexpired(key) /\ key \in DOMAIN led /\ ~led[key].expired
    THEN [led EXCEPT ![key].sends = 1]
    ELSE led

\* the TTL of an entry runs out. Redis deletes the key; the Set stub (which
\* ignores `ex`) and the Map (which waits for its sweep) go on holding it
TimePasses ==
    /\ \E key \in DOMAIN ledger :
         /\ ~ledger[key].expired
         /\ ledger' = IF backend = "redis"
                      THEN RemoveKeys({key})
                      ELSE [ledger EXCEPT ![key].expired = TRUE]
    /\ UNCHANGED <<variant, backend, env, world, isPolling, pc, loc, calc, probe, top, ext>>

\* setInterval(..., 60_000): delete the Map's entries older than DEDUPE_TTL_SEC
Sweep ==
    /\ variant = "poll" /\ backend = "memory"
    /\ \E key \in DOMAIN ledger : ledger[key].expired
    /\ ledger' = RemoveKeys({ key \in DOMAIN ledger : ledger[key].expired })
    /\ UNCHANGED <<variant, backend, env, world, isPolling, pc, loc, calc, probe, top, ext>>

\* candidate tokens as the feed or a payload may spell them
ProbeTokens ==
    { theToken,
      [chain |-> "solana",   address |-> "minta"],
      [chain |-> "Ethereum", address |-> "MintA"],
      [chain |-> "Ethereum", address |-> "minta"],
      [chain |-> "Solana",   address |-> "MintB"] }

ProbeIdle(a, b) == [a |-> a, b |-> b, done |-> FALSE, same |-> FALSE]

\* build the ledger keys of the two tokens as the running program does and
\* compare them
KeyApply ==
    /\ ~probe.done
    /\ probe' = [probe EXCEPT !.done = TRUE,
                              !.same = (KeyOf(probe.a) = KeyOf(probe.b))]
    /\ UNCHANGED <<pipeVars, calc, top, ext>>

\* take the next two tokens
KeyAgain ==
    /\ probe.done
    /\ \E a, b \in ProbeTokens : probe' = ProbeIdle(a, b)
    /\ UNCHANGED <<pipeVars, calc, top, ext>>

-----------------------------------------------------------------------------
(* Filters *)

\* the minimal poller's filter with a volume check that lets 0 through
passesMinimalFilterNoVolume(token) ==
    /\ ~JsLt(token.marketcap, 15000)
    /\ ~JsLt(token.holders, 30)
    /\ ~JsGt(token.top10, 20 * PctUnit)
    /\ ~JsGt(token.dev, 3 * PctUnit)
    /\ ~(~Present(token.volume) \/ JsLt(token.volume, 0))

\* pollOnce of the minimal poller: the five `continue` tests, none taken
passesMinimalFilter(token) ==
    /\ ~JsLt(token.marketcap, 15000)
    /\ ~JsLt(token.holders, 30)
    /\ ~JsGt(token.top10, 20 * PctUnit)
    /\ ~JsGt(token.dev, 3 * PctUnit)
    /\ ~(~Truthy(token.volume) \/ JsLe(token.volume, 0))

\* processToken: const passed = (...)
processTokenPassed(m) ==
    /\ (IF m.marketcap = Nil THEN FALSE ELSE m.marketcap >= MIN_MARKETCAP)
    /\ (IF m.holders = Nil THEN FALSE ELSE m.holders >= MIN_HOLDERS)
    /\ (IF m.top10 = Nil THEN FALSE ELSE m.top10 < MAX_TOP10_PERCENT * PctUnit)
    /\ (IF m.dev = Nil THEN FALSE ELSE m.dev < MAX_DEV_PERCENT * PctUnit)
    /\ m.volume # Nil

\* processTokenEvent: const passed = (...)
processTokenEventPassed(marketCap, holdersCount, top10Percent, devPercent, vol24h) ==
    /\ Truthy(marketCap) /\ marketCap >= minMarketCap
    /\ Truthy(holdersCount) /\ holdersCount >= minHolders
    /\ top10Percent < maxTop10Percent * PctUnit
    /\ devPercent < maxDevPercent * PctUnit
    /\ Truthy(vol24h) /\ vol24h > 0

-----------------------------------------------------------------------------
(* Metric resolution of the polling bot (processToken) *)

FirstN(list, n) == SubSeq(list, 1, Min2(n, Len(list)))

\* Number(((amt / supply) * 100).toFixed(4)): rounded to 4 decimals
PercentToFixed4(amt, supply) == (2 * amt * 100 * PctUnit + supply) \div (2 * supply)

\* what the two Helius RPC calls of one computation return
HeliusFailed == [supply |-> Nil, ok |-> FALSE, largest |-> <<>>]
HeliusAnswers == {HeliusFailed} \cup [supply : SupplyVals, ok : {TRUE}, largest : HolderLists]

\* computeTop10PercentViaHelius: null when a call throws or supply is 0 / missing
computeTop10PercentViaHelius(ans) ==
    IF ~ans.ok \/ ~Truthy(ans.supply) THEN Nil
    ELSE PercentToFixed4(SumBalances(FirstN(ans.largest, TopN)), ans.supply)

\* computeDevHoldPercent: the creator's account if it is among the largest
\* accounts, else the largest account
computeDevHoldPercent(ans, candidateDevAddress) ==
    IF ~ans.ok \/ ~Truthy(ans.supply) THEN Nil
    ELSE LET hit == { i \in 1..Len(ans.largest) : ans.largest[i].address = candidateDevAddress }
         IN  IF candidateDevAddress # "" /\ hit # {}
             THEN PercentToFixed4(ans.largest[CHOOSE i \in hit : \A j \in hit : i <= j].balance,
                                  ans.supply)
             ELSE IF ans.largest # <<>>
             THEN PercentToFixed4(ans.largest[1].balance, ans.supply)
             ELSE Nil

\* fetchMoralisTokenHoldersCount: a count, or null on any failure
MoralisHolderCounts == {Nil, MIN_HOLDERS}

\* fetchMoralisTokenPrice: res.data or null
NoPrice == [found |-> FALSE, marketCap |-> Nil, totalVolume24h |-> Nil]
MoralisPrices ==
    {NoPrice} \cup [found : {TRUE}, marketCap : {Nil, MIN_MARKETCAP}, totalVolume24h : {Nil, 0, 500}]

\* if ((holders === null || holders === undefined) && MORALIS_API_KEY)
askHolders(token) == token.holders = Nil /\ env.moralis

\* a price lookup made whenever Moralis is configured
askPriceAlways(token) == env.moralis

\* if ((marketcap === null || ... || volume24h === null || ...) && MORALIS_API_KEY)
askPrice(token) == (token.marketcap = Nil \/ token.volume = Nil) /\ env.moralis

\* if ((top10Percent === null || top10Percent === undefined) && HELIUS_RPC_URL)
askTop10(token) == token.top10 = Nil /\ env.helius

\* if ((devPercent === null || devPercent === undefined) && HELIUS_RPC_URL)
askDev(token) == token.dev = Nil /\ env.helius

\* processToken from the primary record to the numeric coercion: the metrics
\* it can end with, one for each way the providers it asks may answer,
\* whether both percentages were asked of Helius and getTokenSupply gave 0 or
\* no amount each time, and which providers it called
processTokenResolutions(token, creator) ==
    { [m |->
       [marketcap |-> IF askPrice(token) /\ p.found /\ ~Truthy(token.marketcap)
                         /\ Present(p.marketCap)
                      THEN p.marketCap ELSE token.marketcap,
        holders   |-> IF askHolders(token) THEN h ELSE token.holders,
        top10     |-> IF askTop10(token) /\ Present(computeTop10PercentViaHelius(a))
                      THEN computeTop10PercentViaHelius(a) ELSE token.top10,
        dev       |-> IF askDev(token) /\ Present(computeDevHoldPercent(b, creator))
                      THEN computeDevHoldPercent(b, creator) ELSE token.dev,
        volume    |-> IF askPrice(token) /\ p.found /\ ~Truthy(token.volume)
                         /\ Present(p.totalVolume24h)
                      THEN p.totalVolume24h ELSE token.volume],
       nosupply |-> /\ askTop10(token) /\ a.ok /\ ~Truthy(a.supply)
                    /\ askDev(token) /\ b.ok /\ ~Truthy(b.supply),
       asked |-> [holders |-> askHolders(token), top10 |-> askTop10(token),
                  dev |-> askDev(token), price |-> askPrice(token)]] :
      h \in (IF askHolders(token) THEN MoralisHolderCounts ELSE {Nil}),
      p \in (IF askPrice(token) THEN MoralisPrices ELSE {NoPrice}),
      a \in (IF askTop10(token) THEN HeliusAnswers ELSE {HeliusFailed}),
      b \in (IF askDev(token) THEN HeliusAnswers ELSE {HeliusFailed}) }

\* the metrics processToken can end with
processTokenMetrics(token, creator) ==
    { r.m : r \in processTokenResolutions(token, creator) }

-----------------------------------------------------------------------------
(* Metric resolution of the webhook bot (processTokenEvent) *)

\* fetchTokenMarketData: marketCap ? Number(marketCap) : null, and so for volume
fetchTokenMarketData(feed) ==
    [marketCap |-> IF Truthy(feed.marketcap) THEN feed.marketcap ELSE Nil,
     volume24h |-> IF Truthy(feed.volume) THEN feed.volume ELSE Nil]

\* holdersCount: the array's length, or total || holders.length, then
\* `if (!holdersCount) holdersCount = holdersList.length || 0`
holdersCountOf(holdersRaw) ==
    LET n == IF holdersRaw.form = "array" THEN Len(holdersRaw.holders)
             ELSE IF Truthy(holdersRaw.total) THEN holdersRaw.total
             ELSE Len(holdersRaw.holders)
    IN  IF n = 0 THEN Len(holdersRaw.holders) ELSE n

\* totalSupplyBig: 0n when meta.totalSupply is missing, else its BigInt
totalSupplyBigOf(meta) == IF Truthy(meta.totalSupply) THEN meta.totalSupply ELSE 0

\* top10Percent = percentBigInt(topSum, totalSupplyBig) over holdersList.slice(0, 10)
top10PercentOf(holdersList, totalSupplyBig) ==
    percentBigInt(SumBalances(FirstN(holdersList, TopN)), totalSupplyBig)

\* devPercent: the creator's balance if the creator is in the holders list (0 if
\* it is not); with no creator, the first holder's balance
devPercentOf(holdersList, creator, totalSupplyBig) ==
    LET hit == { i \in 1..Len(holdersList) :
                   toLowerCase(holdersList[i].address) = toLowerCase(creator) }
    IN  IF creator # ""
        THEN IF hit # {}
             THEN percentBigInt(holdersList[CHOOSE i \in hit : \A j \in hit : i <= j].balance,
                                totalSupplyBig)
             ELSE 0
        ELSE IF holdersList # <<>>
             THEN percentBigInt(holdersList[1].balance, totalSupplyBig)
             ELSE 0

\* holder lists as a provider may return them: up to two larger holders before
\* and after ten small ones, in any order
Padding == [i \in 1..TopN |-> [balance |-> 1, address |-> "small"]]

RankEnds ==
    { <<>>, << [balance |-> 7, address |-> "whale"] >>, << [balance |-> 2, address |-> "lp"] >> }

RankLists == { h \o p \o t : h \in RankEnds, p \in {<<>>, Padding}, t \in RankEnds }

TopInputs == [list : RankLists, supply : SupplyVals \cup {40}]

TopIdle(args) == [args |-> args, done |-> FALSE, helius |-> Nil, hook |-> Nil]

\* compute top10Percent of the list and the supply as processTokenEvent does and
\* as computeTop10PercentViaHelius does (both RPC calls answering)
TopApply ==
    /\ ~top.done
    /\ top' = [top EXCEPT
                 !.done = TRUE,
                 !.hook = top10PercentOf(top.args.list,
                              totalSupplyBigOf([found |-> TRUE, totalSupply |-> top.args.supply])),
                 !.helius = computeTop10PercentViaHelius(
                              [supply |-> top.args.supply, ok |-> TRUE, largest |-> top.args.list])]
    /\ UNCHANGED <<pipeVars, calc, probe, ext>>

\* take the next list and supply
TopAgain ==
    /\ top.done
    /\ \E args \in TopInputs : top' = TopIdle(args)
    /\ UNCHANGED <<pipeVars, calc, probe, ext>>

\* processTokenEvent between the dedupe check and its next ledger or Telegram
\* call: where it goes (stage), the TTL of the mark it will write, the metrics
processTokenEventPlan(w) ==
    LET list   == w.holdersRaw.holders
        supply == totalSupplyBigOf(w.meta)
        market == fetchTokenMarketData(w.feed)
        count  == holdersCountOf(w.holdersRaw)
        top10  == top10PercentOf(list, supply)
        dev    == devPercentOf(list, w.creator, supply)
        m      == [marketcap |-> w.feed.marketcap, holders |-> count, top10 |-> top10,
                   dev |-> dev, volume |-> w.feed.volume]
    IN  IF ~env.moralis \/ ~w.meta.found
        THEN [ttl |-> TTL_NO_METADATA, m |-> NoFeed, stage |-> "nometa"]
        ELSE IF w.holdersRaw.form = "null"
        THEN [ttl |-> TTL_NO_HOLDERS, m |-> NoFeed, stage |-> "noholders"]
        ELSE IF \E i \in 1..Len(FirstN(list, TopN)) : list[i].balance = NotAnInteger
        THEN \* BigInt(h.balance || '0') throws into processTokenEvent's catch
             [ttl |-> 0, m |-> NoFeed, stage |-> "error"]
        ELSE IF supply = 0
        THEN [stage |-> "nosupply", ttl |-> TTL_NO_SUPPLY,
              m |-> [NoFeed EXCEPT !.holders = count]]
        ELSE IF ~processTokenEventPassed(market.marketCap, count, top10, dev, market.volume24h)
        THEN [ttl |-> TTL_REJECTED, m |-> m, stage |-> "rejected"]
        ELSE [ttl |-> TTL_NOTIFIED, m |-> m, stage |-> "passed"]

-----------------------------------------------------------------------------
(* Evaluations *)

NoneAsked == [holders |-> FALSE, top10 |-> FALSE, dev |-> FALSE, price |-> FALSE]

\* locals of an evaluation and the record of what it did
LocInit ==
    [ttl        |-> 0,       \* TTL of the mark about to be written
     dispatched |-> FALSE,   \* it invoked the Telegram sink
     m          |-> NoFeed,  \* the metrics the filter decides on
     nosupply   |-> FALSE,   \* the total supply it read was 0 or missing
     asked      |-> NoneAsked,  \* the fallback providers it called
     passed     |-> FALSE,   \* the filter's verdict
     outcome    |-> "none",  \* how the evaluation ended
     delivered  |-> FALSE,   \* and the send succeeded
     claimed    |-> FALSE,   \* it wrote the token's key to the ledger
     fresh      |-> FALSE,   \* no unexpired entry for the key when it started
     early      |-> "",      \* why pollOnce returned before its loop, if it did
     status     |-> 0,       \* HTTP status the webhook delivery was answered with
     req        |-> [rawBody |-> EmptyPayload, sig |-> [key |-> "", body |-> EmptyPayload]],
                             \* the webhook delivery that started it
     left       |-> 0,       \* occurrences of the token still ahead in the batch
     unmarked   |-> FALSE,   \* the poll before this one rejected the token and
                             \* wrote no mark for it
     evals      |-> 0]       \* occurrences of the batch evaluated to completion

tokenKey == KeyOf(theToken)

InFlight == { u \in Workers : pc[u] # "idle" }

Finished(w) == pc[w] = "idle" /\ loc[w].outcome # "none"

\* the outcomes of a ledger call: only a call to Upstash can fail
CallFails == IF backend = "redis" THEN BOOLEAN ELSE {FALSE}

\* worker w starts on a batch of n occurrences of the token with the first one
Begin(w, label, n) ==
    /\ pc[w] = "idle"
    /\ pc' = [pc EXCEPT ![w] = label]
    /\ loc' = [loc EXCEPT ![w] = [LocInit EXCEPT !.fresh = ~Unexpired(tokenKey),
                                                !.left = n - 1]]

\* an evaluation with this outcome went through metric resolution and the filter
Completed(outcome) == outcome \notin {"skipped", "error"}

\* worker w goes on to `label` with locals l
Goto(w, label, l) ==
    /\ pc' = [pc EXCEPT ![w] = label]
    /\ loc' = [loc EXCEPT ![w] = l]

\* worker w's evaluation ends: the run is over when the batch is used up or,
\* with outcome "error", when an exception left the loop over the batch;
\* otherwise the loop goes on (pc "next")
End(w, outcome, l) ==
    /\ pc' = [pc EXCEPT ![w] = IF l.left > 0 /\ outcome # "error" THEN "next" ELSE "idle"]
    /\ loc' = [loc EXCEPT ![w] =
                 [l EXCEPT !.outcome = outcome,
                           !.evals = IF Completed(outcome) THEN Min2(@ + 1, CountCap) ELSE @]]

\* for (const token of tokens): the loop takes the next occurrence of the batch
forNext(w, label) ==
    /\ pc[w] = "next"
    /\ pc' = [pc EXCEPT ![w] = label]
    /\ loc' = [loc EXCEPT ![w] = [LocInit EXCEPT !.fresh = ~Unexpired(tokenKey),
                                                !.left = loc[w].left - 1,
                                                !.unmarked = loc[w].unmarked,
                                                !.evals = loc[w].evals]]

\* the Telegram sink is invoked once for the token; the send succeeds or fails
\* (both senders catch the failure and return normally)
Dispatch(l, ok) == [l EXCEPT !.dispatched = TRUE, !.delivered = ok]

\* a dedupe check that never reports the token as processed
wasProcessedNever(fail) == FALSE

\* wasProcessed(address): a failing redis.get is caught and reported as false
wasProcessed(fail) == ~fail /\ ledgerHas(tokenKey)

\* a markProcessed that writes nothing
markProcessedNoWrite(fail) == ledger

\* markProcessed(address): SET NX with the dedupe TTL, or has() then set();
\* a failing redis.set is caught and nothing is written
markProcessed(fail) == IF fail THEN ledger ELSE setIfAbsent(tokenKey, DEDUPE_TTL_SEC)

\* what markProcessed returns: res === 'OK' (created), false when the key
\* existed or the call failed; with the Map, whether has(key) was false
markProcessedResult(fail) == ~fail /\ ~ledgerHas(tokenKey)

-----------------------------------------------------------------------------
(* The minimal poller: pollOnce, lines 45-79 *)

\* setInterval(pollOnce, 15000): a run starts whether or not another is going
\* on; the feed returns the token n times
pollOnceMinimal(w, n) ==
    /\ variant = "min"
    /\ Begin(w, "m_get", n)
    /\ UNCHANGED <<variant, backend, env, world, ledger, isPolling, calc, probe, top, ext>>

\* for (const token of tokens): the next token of the feed's answer
minimalNext(w) ==
    /\ variant = "min"
    /\ forNext(w, "m_get")
    /\ UNCHANGED <<variant, backend, env, world, ledger, isPolling, calc, probe, top, ext>>

\* const seen = await redis.get(key); if (seen) continue;
\* a failing call throws into pollOnce's catch and the run ends
minimalGet(w, fail) ==
    /\ pc[w] = "m_get"
    /\ fail \in CallFails
    /\ IF fail
       THEN End(w, "error", loc[w])
       ELSE IF ledgerHas(tokenKey)
       THEN End(w, "skipped", loc[w])
       ELSE Goto(w, "m_set", loc[w])
    /\ UNCHANGED <<variant, backend, env, world, ledger, isPolling, calc, probe, top, ext>>

\* await redis.set(key, 1, { ex: 3600 }); then the filters
minimalSet(w, fail) ==
    /\ pc[w] = "m_set"
    /\ fail \in CallFails
    /\ IF fail
       THEN /\ End(w, "error", loc[w])
            /\ UNCHANGED ledger
       ELSE LET new == IF backend = "redis" THEN redisSet(tokenKey, SEEN_TTL_SEC)
                       ELSE stubSet(tokenKey, SEEN_TTL_SEC)
                l   == [loc[w] EXCEPT !.claimed = TRUE, !.ttl = SEEN_TTL_SEC,
                                      !.m = world.feed,
                                      !.passed = passesMinimalFilter(world.feed)]
            IN  /\ ledger' = new
                /\ IF l.passed THEN Goto(w, "m_send", l) ELSE End(w, "rejected", l)
    /\ UNCHANGED <<variant, backend, env, world, isPolling, calc, probe, top, ext>>

\* await sendTelegramMessage(msg)
minimalSend(w) ==
    /\ pc[w] = "m_send"
    /\ ledger' = CountSend(tokenKey)
    /\ \E ok \in BOOLEAN : End(w, "sent", Dispatch(loc[w], ok))
    /\ UNCHANGED <<variant, backend, env, world, isPolling, calc, probe, top, ext>>

-----------------------------------------------------------------------------
(* The polling bot: pollOnce and processToken, lines 389-520 *)

\* a re-entrancy test that never finds a poll in progress
pollOnceNeverReentered == FALSE

\* if (isPolling) return;
pollOnceReentered == isPolling

\* a pollOnce without `finally`: the flag stays set
pollOnceNoFinally(bodyEnds) == TRUE

\* isPolling after a step of pollOnce's body: `finally { isPolling = false }`
\* runs when the body is left, by its end, a return or an exception
pollOnceFinally(bodyEnds) == ~bodyEnds

\* pollOnce returns before its loop: loc records why
returnEarly(w, why) == loc' = [loc EXCEPT ![w] = [LocInit EXCEPT !.early = why]]

\* a timer tick (or the call at start-up) runs pollOnce up to its first await:
\* if (isPolling) return; isPolling = true; if (!PUMPFUN_API_URL) return;
\* await axios.get(PUMPFUN_API_URL, ...)
\* The call takes the first worker that is idle (the workers are alike).
pollOnce(w) ==
    /\ variant = "poll"
    /\ pc[w] = "idle"
    /\ \A u \in Workers : u < w => pc[u] # "idle"
    /\ IF pollOnceReentered
       THEN /\ returnEarly(w, "busy")
            /\ UNCHANGED <<pc, isPolling>>
       ELSE IF ~env.feedUrl
       THEN /\ returnEarly(w, "nourl")
            /\ isPolling' = pollOnceFinally(TRUE)
            /\ UNCHANGED pc
       ELSE /\ isPolling' = TRUE
            /\ Goto(w, "p_fetch",
                    [LocInit EXCEPT !.unmarked = loc[w].outcome = "rejected" /\ ~loc[w].claimed])
    /\ UNCHANGED <<variant, backend, env, world, ledger, calc, probe, top, ext>>

\* the feed answers with the token n times: `if (!tokens.length) return;` or
\* the loop starts on the first one
pollOnceFetch(w, n) ==
    /\ pc[w] = "p_fetch"
    /\ IF n = 0
       THEN /\ returnEarly(w, "empty")
            /\ pc' = [pc EXCEPT ![w] = "idle"]
            /\ isPolling' = pollOnceFinally(TRUE)
       ELSE /\ Goto(w, "p_was", [loc[w] EXCEPT !.fresh = ~Unexpired(tokenKey), !.left = n - 1])
            /\ UNCHANGED isPolling
    /\ UNCHANGED <<variant, backend, env, world, ledger, calc, probe, top, ext>>

\* axios.get throws (timeout, network, HTTP error): catch logs, finally resets
pollOnceFetchFails(w) ==
    /\ pc[w] = "p_fetch"
    /\ returnEarly(w, "error")
    /\ pc' = [pc EXCEPT ![w] = "idle"]
    /\ isPolling' = pollOnceFinally(TRUE)
    /\ UNCHANGED <<variant, backend, env, world, ledger, calc, probe, top, ext>>

\* for (const token of tokens) { try { await processToken(token) } catch ... }
pollOnceNext(w) ==
    /\ variant = "poll"
    /\ forNext(w, "p_was")
    /\ UNCHANGED <<variant, backend, env, world, ledger, isPolling, calc, probe, top, ext>>

\* if (await wasProcessed(address)) return;
processTokenDedupe(w, fail) ==
    /\ pc[w] = "p_was"
    /\ fail \in CallFails
    /\ IF wasProcessed(fail)
       THEN /\ End(w, "skipped", loc[w])
            /\ isPolling' = pollOnceFinally(loc[w].left = 0)
       ELSE /\ Goto(w, "p_resolve", loc[w])
            /\ UNCHANGED isPolling
    /\ UNCHANGED <<variant, backend, env, world, ledger, calc, probe, top, ext>>

\* a rejection branch that marks every token that failed the filter
markRejectedAlways(m) == TRUE

\* if (marketcap !== null && holders !== null) await markProcessed(address);
\* a token that failed the filter is marked only with both values at hand
markRejected(m) == m.marketcap # Nil /\ m.holders # Nil

\* the metrics from the token and the fallback providers, then the filter
processTokenResolve(w) ==
    /\ pc[w] = "p_resolve"
    /\ \E r \in processTokenResolutions(world.feed, world.creator) :
         LET m == r.m
             l == [loc[w] EXCEPT !.m = m, !.passed = processTokenPassed(m),
                                 !.nosupply = r.nosupply, !.asked = r.asked]
         IN  IF l.passed
             THEN Goto(w, "p_send", l) /\ UNCHANGED isPolling
             ELSE IF markRejected(m)
             THEN Goto(w, "p_mark", l) /\ UNCHANGED isPolling
             ELSE End(w, "rejected", l) /\ isPolling' = pollOnceFinally(l.left = 0)
    /\ UNCHANGED <<variant, backend, env, world, ledger, calc, probe, top, ext>>

\* await sendTelegramMessage(message);  its result is not looked at
processTokenSend(w) ==
    /\ pc[w] = "p_send"
    /\ ledger' = CountSend(tokenKey)
    /\ \E ok \in BOOLEAN : Goto(w, "p_mark", Dispatch(loc[w], ok))
    /\ UNCHANGED <<variant, backend, env, world, isPolling, calc, probe, top, ext>>

\* await markProcessed(address);  then pollOnce's finally: isPolling = false
processTokenMark(w, fail) ==
    /\ pc[w] = "p_mark"
    /\ fail \in CallFails
    /\ LET new == markProcessed(fail)
           l   == [loc[w] EXCEPT !.claimed = markProcessedResult(fail),
                                 !.ttl = DEDUPE_TTL_SEC]
       IN  /\ ledger' = CountOpeningSend(new, tokenKey, l)
           /\ End(w, IF l.dispatched THEN "sent" ELSE "rejected", l)
    /\ isPolling' = pollOnceFinally(loc[w].left = 0)
    /\ UNCHANGED <<variant, backend, env, world, calc, probe, top, ext>>

-----------------------------------------------------------------------------
(* The webhook bot: app.post('/webhook/helius') and processTokenEvent *)

\* a dedupe key that keeps chain and address as they are spelled
payloadKeyAsSpelled(t) == <<t.chain, t.address>>

\* the key extractTokensFromHelius deduplicates by:
\* `${(t.chain||'').toLowerCase()}:${t.address.toLowerCase()}`
\* (a pair here; no chain or address of the model contains a colon)
payloadKey(t) == <<toLowerCase(t.chain), toLowerCase(t.address)>>

\* the array `out` before deduplication: what the flat fields, the `tokens`
\* array and the transactions of the payload name, in the order of the pushes
outOf(payload) ==
    LET RECURSIVE Flatten(_)
        Flatten(seqs) == IF seqs = <<>> THEN <<>> ELSE Head(seqs) \o Flatten(Tail(seqs))
        flatMint ==
            IF payload.mint # ""
            THEN << [chain |-> orElse(payload.chain, "solana"), address |-> payload.mint,
                     creator |-> orElse(payload.mintAuthority, payload.creator)] >>
            ELSE <<>>
        flatAddress ==
            IF payload.tokenAddress # ""
            THEN << [chain |-> orElse(payload.chain, "ethereum"),
                     address |-> payload.tokenAddress, creator |-> payload.creator] >>
            ELSE <<>>
        named == SelectSeq(payload.tokens, LAMBDA t : t.address # "" \/ t.mint # "")
        fromTokens ==
            [i \in 1..Len(named) |->
                [chain |-> orElse(named[i].chain, orElse(payload.chain, "unknown")),
                 address |-> orElse(named[i].address, named[i].mint),
                 creator |-> orElse(named[i].creator, named[i].mintAuthority)]]
        fromTx(tx) ==
            LET transfers == SelectSeq(tx.tokenTransfers, LAMBDA tt : tt.tokenAddress # "")
                data == SelectSeq(tx.tokenData, LAMBDA d : d.mint # "")
                chain == orElse(tx.chain, orElse(payload.chain, "unknown"))
            IN  [i \in 1..Len(transfers) |->
                    [chain |-> chain, address |-> transfers[i].tokenAddress,
                     creator |-> transfers[i].from]]
                \o [i \in 1..Len(data) |->
                    [chain |-> chain, address |-> data[i].mint,
                     creator |-> data[i].mintAuthority]]
    IN  flatMint \o flatAddress \o fromTokens
        \o Flatten([i \in 1..Len(payload.transactions) |-> fromTx(payload.transactions[i])])

\* for (const t of out) { if (!t.address) continue; if (!map.has(key))
\* map.set(key, { chain: t.chain || 'unknown', address, creator }) }: `map` is
\* the Map as the sequence of its [key, value] in insertion order
RECURSIVE DedupeTokens(_, _)
DedupeTokens(pushed, map) ==
    IF pushed = <<>> THEN map
    ELSE LET t == Head(pushed)
         IN  IF t.address = "" \/ \E i \in 1..Len(map) : map[i].key = payloadKey(t)
             THEN DedupeTokens(Tail(pushed), map)
             ELSE DedupeTokens(Tail(pushed),
                      Append(map, [key |-> payloadKey(t),
                                   value |-> [chain |-> orElse(t.chain, "unknown"),
                                              address |-> t.address,
                                              creator |-> t.creator]]))

\* extractTokensFromHelius(payload): Array.from(map.values())
extractTokensFromHelius(payload) ==
    LET map == DedupeTokens(outOf(payload), <<>>)
    IN  [i \in 1..Len(map) |-> map[i].value]

\* a payload whose `tokens` array names the token n times, by chain and address
Payload(n) ==
    [EmptyPayload EXCEPT
        !.tokens = [i \in 1..n |->
                       [chain |-> theToken.chain, address |-> theToken.address,
                        mint |-> "", mintAuthority |-> "", creator |-> ""]]]

\* payloads of the shapes extractTokensFromHelius knows: flat mint and
\* tokenAddress fields, a tokens array of up to MaxBatch elements and up to one
\* transaction, naming MintA and MintB in several spellings and chains
ExtractPayloads ==
    LET elements ==
            { [chain |-> "", address |-> "MintA", mint |-> "", mintAuthority |-> "", creator |-> ""],
              [chain |-> "Solana", address |-> "", mint |-> "minta", mintAuthority |-> "Dev", creator |-> ""],
              [chain |-> "", address |-> "", mint |-> "", mintAuthority |-> "", creator |-> "Dev"] }
        transfers ==
            { <<>>, << [tokenAddress |-> "MintA", from |-> "Dev"] >>,
              << [tokenAddress |-> "", from |-> "Dev"] >> }
        data ==
            { <<>>, << [mint |-> "minta", mintAuthority |-> ""],
                       [mint |-> "MintB", mintAuthority |-> "Dev"] >> }
    IN  [chain : {"", "Solana"}, mint : {"", "MintA"}, mintAuthority : {""},
         creator : {""}, tokenAddress : {"", "minta"},
         tokens : UNION { [1..n -> elements] : n \in 0..MaxBatch },
         transactions : {<<>>} \cup
             { << tx >> : tx \in [chain : {"", "solana"}, tokenTransfers : transfers,
                                   tokenData : data] }]

ExtractIdle(payload) == [done |-> FALSE, tokens |-> <<>>, payload |-> payload, started |-> <<>>]

\* const tokens = extractTokensFromHelius(payload); for (const t of tokens)
\* processTokenEvent(t): `started` holds the ledger key of each evaluation the
\* delivery starts
ExtractApply ==
    /\ ~ext.done
    /\ LET tokens == extractTokensFromHelius(ext.payload)
       IN  ext' = [ext EXCEPT
                     !.done = TRUE,
                     !.tokens = tokens,
                     !.started = [i \in 1..Len(tokens) |->
                                     eventKey(tokens[i].chain, tokens[i].address)]]
    /\ UNCHANGED <<pipeVars, calc, probe, top>>

\* take the next payload
ExtractAgain ==
    /\ ext.done
    /\ \E payload \in ExtractPayloads : ext' = ExtractIdle(payload)
    /\ UNCHANGED <<pipeVars, calc, probe, top>>

\* HELIUS_WEBHOOK_SECRET when one is set, and a secret a stranger may try
theSecret == "secret"
aGuess == "guess"

\* crypto.createHmac('sha256', key).update(body).digest('hex'): the digest is
\* determined by key and body, and differs when either differs
hmacSha256(key, body) == [key |-> key, body |-> body]

\* req.headers['x-helius-signature'] is missing
NoHeader == [key |-> "", body |-> Payload(0)]

\* the signature headers a sender may put on a delivery
SigHeaders ==
    {NoHeader} \cup { hmacSha256(k, Payload(n)) : k \in {theSecret, aGuess}, n \in 1..MaxBatch }

\* deliveries: the raw body (req.body is its JSON parse) and the signature header
Requests == [rawBody : { Payload(n) : n \in 1..MaxBatch }, sig : SigHeaders]

\* deliveries of a sender that does not sign, naming the token n times, n in sizes
Unsigned(sizes) == [rawBody : { Payload(n) : n \in sizes }, sig : {NoHeader}]

\* a verification that lets every delivery through
verifyHeliusSignatureAlways(req) == TRUE

\* verifyHeliusSignature(req)
verifyHeliusSignature(req) ==
    IF ~env.secret THEN TRUE
    ELSE IF req.sig = NoHeader THEN FALSE
    ELSE req.sig = hmacSha256(theSecret, req.rawBody)

\* app.post('/webhook/helius'): a delivery whose signature does not verify is
\* answered 401; else processTokenEvent(t) is started, and not awaited, for each
\* token extractTokensFromHelius returns (the payload names the token n times),
\* and the delivery is answered 200
webhook(w, req) ==
    /\ variant = "hook"
    /\ pc[w] = "idle"
    /\ req \in Requests
    /\ IF ~verifyHeliusSignature(req)
       THEN /\ loc' = [loc EXCEPT ![w] = [LocInit EXCEPT !.status = 401, !.req = req]]
            /\ UNCHANGED pc
       ELSE /\ pc' = [pc EXCEPT ![w] = "h_get"]
            /\ loc' = [loc EXCEPT ![w] =
                         [LocInit EXCEPT !.fresh = ~Unexpired(tokenKey),
                                         !.left = Len(extractTokensFromHelius(req.rawBody)) - 1,
                                         !.status = 200, !.req = req]]
    /\ UNCHANGED <<variant, backend, env, world, ledger, isPolling, calc, probe, top, ext>>

\* const already = await redis.get(key); if (already) return;  a failing get is
\* caught and the evaluation goes on
processTokenEventDedupe(w, fail) ==
    /\ pc[w] = "h_get"
    /\ fail \in CallFails
    /\ IF ~fail /\ ledgerHas(tokenKey)
       THEN End(w, "skipped", loc[w])
       ELSE Goto(w, "h_resolve", loc[w])
    /\ UNCHANGED <<variant, backend, env, world, ledger, isPolling, calc, probe, top, ext>>

\* metadata, holders, supply, percentages, market data and the filter; an
\* exception on the way is caught at the end of processTokenEvent, which logs it
\* and returns
processTokenEventResolve(w) ==
    /\ pc[w] = "h_resolve"
    /\ LET plan == processTokenEventPlan(world)
           l    == [loc[w] EXCEPT !.m = plan.m, !.passed = plan.stage = "passed",
                                  !.ttl = plan.ttl, !.outcome = plan.stage,
                                  !.nosupply = plan.stage = "nosupply"]
       IN  IF plan.stage = "error"
           THEN End(w, "error", [l EXCEPT !.outcome = "none"])
           ELSE Goto(w, IF l.passed THEN "h_send" ELSE "h_set", l)
    /\ UNCHANGED <<variant, backend, env, world, ledger, isPolling, calc, probe, top, ext>>

\* await sendTelegramMarkdown(text)
processTokenEventSend(w) ==
    /\ pc[w] = "h_send"
    /\ ledger' = CountSend(tokenKey)
    /\ \E ok \in BOOLEAN : Goto(w, "h_set", Dispatch(loc[w], ok))
    /\ UNCHANGED <<variant, backend, env, world, isPolling, calc, probe, top, ext>>

\* try { await redis.set(key, '1', { ex: ttl }); } catch (e) {}  return;
processTokenEventMark(w, fail) ==
    /\ pc[w] = "h_set"
    /\ fail \in CallFails
    /\ LET new == IF fail THEN ledger ELSE redisSet(tokenKey, loc[w].ttl)
           l   == [loc[w] EXCEPT !.claimed = ~fail]
       IN  /\ ledger' = CountOpeningSend(new, tokenKey, l)
           /\ End(w, IF l.dispatched THEN "sent" ELSE l.outcome, l)
    /\ UNCHANGED <<variant, backend, env, world, isPolling, calc, probe, top, ext>>

-----------------------------------------------------------------------------
(* Specifications *)

NoEnv == [moralis |-> FALSE, helius |-> FALSE, feedUrl |-> TRUE, secret |-> FALSE]

PollWorlds == { World(f, c, NoMeta, NoHolders) : f \in Feeds, c \in Creators }

\* the program, its configuration and the token's data are fixed at start-up
Setups ==
    { [variant |-> "min", backend |-> b, env |-> NoEnv, world |-> x] :
        b \in {"redis", "memory"}, x \in FeedWorlds }
    \cup { s \in [variant : {"poll"}, backend : {"redis", "memory"},
                   env : [moralis : BOOLEAN, helius : BOOLEAN, feedUrl : {TRUE},
                          secret : {FALSE}],
                   world : PollWorlds] :
             \* the creator is read only by the Helius fallback for devPercent
             s.world.creator = "" \/ (s.env.helius /\ s.world.feed.dev = Nil) }
    \cup { [variant |-> "hook", backend |-> "redis", env |-> [NoEnv EXCEPT !.moralis = TRUE],
            world |-> x] : x \in HookWorlds }
    \cup { [variant |-> "hook", backend |-> "redis", env |-> NoEnv,
            world |-> World(NoFeed, "", NoMeta, NoHolders)] }

EmptyLedger == [k \in {} |-> NewEntry(0)]

InitPipeline(s) ==
    /\ variant = s.variant
    /\ backend = s.backend
    /\ env = s.env
    /\ world = s.world
    /\ ledger = EmptyLedger
    /\ isPolling = FALSE
    /\ pc = [w \in Workers |-> "idle"]
    /\ loc = [w \in Workers |-> LocInit]

Init ==
    /\ \E s \in Setups : InitPipeline(s)
    /\ calc = CalcIdle([amount |-> 0, total |-> 1, k |-> 1])
    /\ probe = ProbeIdle(theToken, theToken)
    /\ top = TopIdle([list |-> <<>>, supply |-> Nil])
    /\ ext = ExtractIdle(EmptyPayload)

\* the ledger calls of Next may fail; those of NextSeq do not
Outcomes == BOOLEAN
NoFailure == {FALSE}

\* no evaluation is in flight
Quiet == InFlight = {}

\* sizes of an ingestion batch: the token once, or up to MaxBatch times
OneToken == {1}
BatchSizes == 1..MaxBatch

Next ==
    \/ \E w \in Workers, n \in OneToken : pollOnceMinimal(w, n)
    \/ \E w \in Workers, fail \in Outcomes : minimalGet(w, fail)
    \/ \E w \in Workers, fail \in Outcomes : minimalSet(w, fail)
    \/ \E w \in Workers : minimalSend(w)
    \/ \E w \in Workers : pollOnce(w)
    \/ \E w \in Workers, n \in OneToken : pollOnceFetch(w, n)
    \/ \E w \in Workers, fail \in Outcomes : processTokenDedupe(w, fail)
    \/ \E w \in Workers : processTokenResolve(w)
    \/ \E w \in Workers : processTokenSend(w)
    \/ \E w \in Workers, fail \in Outcomes : processTokenMark(w, fail)
    \/ \E w \in Workers, req \in Unsigned(OneToken) : webhook(w, req)
    \/ \E w \in Workers, fail \in Outcomes : processTokenEventDedupe(w, fail)
    \/ \E w \in Workers : processTokenEventResolve(w)
    \/ \E w \in Workers : processTokenEventSend(w)
    \/ \E w \in Workers, fail \in Outcomes : processTokenEventMark(w, fail)
    \/ TimePasses
    \/ Sweep

\* the program with overlapping evaluations, failing ledger calls and passing time
Spec == Init /\ [][Next]_vars

\* one evaluation at a time (sequential ingestion cycles) and a ledger whose
\* every call succeeds
NextSeq ==
    \/ \E w \in Workers, n \in OneToken : Quiet /\ pollOnceMinimal(w, n)
    \/ \E w \in Workers, fail \in NoFailure : minimalGet(w, fail)
    \/ \E w \in Workers, fail \in NoFailure : minimalSet(w, fail)
    \/ \E w \in Workers : minimalSend(w)
    \/ \E w \in Workers : Quiet /\ pollOnce(w)
    \/ \E w \in Workers, n \in OneToken : pollOnceFetch(w, n)
    \/ \E w \in Workers, fail \in NoFailure : processTokenDedupe(w, fail)
    \/ \E w \in Workers : processTokenResolve(w)
    \/ \E w \in Workers : processTokenSend(w)
    \/ \E w \in Workers, fail \in NoFailure : processTokenMark(w, fail)
    \/ \E w \in Workers, req \in Unsigned(OneToken) : Quiet /\ webhook(w, req)
    \/ \E w \in Workers, fail \in NoFailure : processTokenEventDedupe(w, fail)
    \/ \E w \in Workers : processTokenEventResolve(w)
    \/ \E w \in Workers : processTokenEventSend(w)
    \/ \E w \in Workers, fail \in NoFailure : processTokenEventMark(w, fail)
    \/ TimePasses
    \/ Sweep

SpecSeq == Init /\ [][NextSeq]_vars

\* sequential ingestion cycles whose batch holds the token up to MaxBatch times;
\* ledger calls may fail. A batch is handled within seconds, well inside the
\* shortest TTL, so no entry expires here.
NextBatch ==
    \/ \E w \in Workers, n \in BatchSizes : Quiet /\ pollOnceMinimal(w, n)
    \/ \E w \in Workers : minimalNext(w)
    \/ \E w \in Workers, fail \in Outcomes : minimalGet(w, fail)
    \/ \E w \in Workers, fail \in Outcomes : minimalSet(w, fail)
    \/ \E w \in Workers : minimalSend(w)
    \/ \E w \in Workers : Quiet /\ pollOnce(w)
    \/ \E w \in Workers, n \in BatchSizes : pollOnceFetch(w, n)
    \/ \E w \in Workers : pollOnceNext(w)
    \/ \E w \in Workers, fail \in Outcomes : processTokenDedupe(w, fail)
    \/ \E w \in Workers : processTokenResolve(w)
    \/ \E w \in Workers : processTokenSend(w)
    \/ \E w \in Workers, fail \in Outcomes : processTokenMark(w, fail)
    \/ \E w \in Workers, req \in Unsigned(BatchSizes) : Quiet /\ webhook(w, req)
    \/ \E w \in Workers, fail \in Outcomes : processTokenEventDedupe(w, fail)
    \/ \E w \in Workers : processTokenEventResolve(w)
    \/ \E w \in Workers : processTokenEventSend(w)
    \/ \E w \in Workers, fail \in Outcomes : processTokenEventMark(w, fail)

SpecBatch == Init /\ [][NextBatch]_vars

\* percentBigInt applied to arguments drawn from CalcInputs
InitCalc ==
    /\ InitPipeline([variant |-> "hook", backend |-> "redis", env |-> NoEnv,
                     world |-> World(NoFeed, "", NoMeta, NoHolders)])
    /\ \E args \in CalcInputs : calc = CalcIdle(args)
    /\ probe = ProbeIdle(theToken, theToken)
    /\ top = TopIdle([list |-> <<>>, supply |-> Nil])
    /\ ext = ExtractIdle(EmptyPayload)

NextCalc == CalcApply \/ CalcAgain

SpecCalc == InitCalc /\ [][NextCalc]_vars

\* the ledger keys of pairs of tokens drawn from ProbeTokens, in each program
InitKey ==
    /\ \E v \in {"min", "poll", "hook"} :
          InitPipeline([variant |-> v, backend |-> "redis", env |-> NoEnv,
                        world |-> World(NoFeed, "", NoMeta, NoHolders)])
    /\ calc = CalcIdle([amount |-> 0, total |-> 1, k |-> 1])
    /\ \E a, b \in ProbeTokens : probe = ProbeIdle(a, b)
    /\ top = TopIdle([list |-> <<>>, supply |-> Nil])
    /\ ext = ExtractIdle(EmptyPayload)

NextKey == KeyApply \/ KeyAgain

SpecKey == InitKey /\ [][NextKey]_vars

\* top10Percent computed for lists and supplies drawn from TopInputs
InitTop ==
    /\ InitPipeline([variant |-> "hook", backend |-> "redis", env |-> NoEnv,
                     world |-> World(NoFeed, "", NoMeta, NoHolders)])
    /\ calc = CalcIdle([amount |-> 0, total |-> 1, k |-> 1])
    /\ probe = ProbeIdle(theToken, theToken)
    /\ \E args \in TopInputs : top = TopIdle(args)
    /\ ext = ExtractIdle(EmptyPayload)

NextTop == TopApply \/ TopAgain

SpecTop == InitTop /\ [][NextTop]_vars

\* extractTokensFromHelius applied to payloads drawn from ExtractPayloads
InitExtract ==
    /\ InitPipeline([variant |-> "hook", backend |-> "redis", env |-> NoEnv,
                     world |-> World(NoFeed, "", NoMeta, NoHolders)])
    /\ calc = CalcIdle([amount |-> 0, total |-> 1, k |-> 1])
    /\ probe = ProbeIdle(theToken, theToken)
    /\ top = TopIdle([list |-> <<>>, supply |-> Nil])
    /\ \E payload \in ExtractPayloads : ext = ExtractIdle(payload)

NextExtract == ExtractApply \/ ExtractAgain

SpecExtract == InitExtract /\ [][NextExtract]_vars

\* the external calls an evaluation awaits with no timeout: the Upstash calls
\* and fetch() everywhere, the Moralis calls of processToken, the Telegram POST
\* of processTokenEvent (the other axios calls carry `timeout`)
StallPoints ==
    CASE variant = "min"  -> {"m_get", "m_set", "m_send"}
      [] variant = "poll" ->
            (IF backend = "redis" THEN {"p_was", "p_mark"} ELSE {})
            \cup (IF env.moralis /\ (world.feed.holders = Nil \/ world.feed.marketcap = Nil
                                      \/ world.feed.volume = Nil)
                  THEN {"p_resolve"} ELSE {})
      [] OTHER            -> {"h_get", "h_send", "h_set"}

\* the call worker w awaits never returns: its async function stays suspended
\* (one such call is considered)
callNeverReturns(w) ==
    /\ pc[w] \in StallPoints
    /\ \A u \in Workers : pc[u] # "stuck"
    /\ pc' = [pc EXCEPT ![w] = "stuck"]
    /\ UNCHANGED <<variant, backend, env, world, ledger, isPolling, loc, calc, probe, top, ext>>

\* every step of worker w but a call that hangs: the timer tick or delivery
\* that starts a run on it, and the continuations of its awaits
Advance(w) ==
    \/ \E n \in BatchSizes : pollOnceMinimal(w, n)
    \/ minimalNext(w)
    \/ \E fail \in NoFailure : minimalGet(w, fail)
    \/ \E fail \in NoFailure : minimalSet(w, fail)
    \/ minimalSend(w)
    \/ pollOnce(w)
    \/ \E n \in BatchSizes : pollOnceFetch(w, n)
    \/ pollOnceNext(w)
    \/ \E fail \in NoFailure : processTokenDedupe(w, fail)
    \/ processTokenResolve(w)
    \/ processTokenSend(w)
    \/ \E fail \in NoFailure : processTokenMark(w, fail)
    \/ \E req \in Unsigned(BatchSizes) : webhook(w, req)
    \/ \E fail \in NoFailure : processTokenEventDedupe(w, fail)
    \/ processTokenEventResolve(w)
    \/ processTokenEventSend(w)
    \/ \E fail \in NoFailure : processTokenEventMark(w, fail)

\* token records for the runs with a hanging call: nothing known, market data
\* only, or all five metrics, within the thresholds
LiveFeeds ==
    { NoFeed,
      [NoFeed EXCEPT !.marketcap = MIN_MARKETCAP, !.volume = 500],
      [marketcap |-> MIN_MARKETCAP, holders |-> MIN_HOLDERS, top10 |-> 15 * PctUnit,
       dev |-> 1 * PctUnit, volume |-> 500] }

\* the setups with such a token record, no creator named, no Helius RPC, and
\* a holders endpoint that answers nothing or a list within the thresholds
LiveSetups ==
    { s \in Setups :
        /\ s.world.feed \in LiveFeeds
        /\ ~s.env.helius
        /\ s.world.creator = ""
        /\ s.world.holdersRaw \in
              { NoHolders,
                [total |-> MIN_HOLDERS, holders |-> << [balance |-> 2, address |-> "lp"],
                                [balance |-> 1, address |-> "dev"] >>,
                 form |-> "object"] } }

\* the polling bot with and without PUMPFUN_API_URL; the feed may fail or
\* answer with no token
InitPoll ==
    /\ \E s \in Setups, url \in BOOLEAN :
          /\ s.variant = "poll"
          /\ s.world.feed \in LiveFeeds
          /\ InitPipeline([s EXCEPT !.env.feedUrl = url])
    /\ calc = CalcIdle([amount |-> 0, total |-> 1, k |-> 1])
    /\ probe = ProbeIdle(theToken, theToken)
    /\ top = TopIdle([list |-> <<>>, supply |-> Nil])
    /\ ext = ExtractIdle(EmptyPayload)

NextPoll ==
    \/ \E w \in Workers : pollOnce(w)
    \/ \E w \in Workers, n \in 0..MaxBatch : pollOnceFetch(w, n)
    \/ \E w \in Workers : pollOnceFetchFails(w)
    \/ \E w \in Workers : pollOnceNext(w)
    \/ \E w \in Workers, fail \in Outcomes : processTokenDedupe(w, fail)
    \/ \E w \in Workers : processTokenResolve(w)
    \/ \E w \in Workers : processTokenSend(w)
    \/ \E w \in Workers, fail \in Outcomes : processTokenMark(w, fail)
    \/ TimePasses
    \/ Sweep

SpecPoll == InitPoll /\ [][NextPoll]_vars

\* the webhook bot with and without HELIUS_WEBHOOK_SECRET, receiving signed,
\* wrongly signed and unsigned deliveries
InitAuth ==
    /\ \E s \in LiveSetups, sec \in BOOLEAN :
          /\ s.variant = "hook"
          /\ InitPipeline([s EXCEPT !.env.secret = sec])
    /\ calc = CalcIdle([amount |-> 0, total |-> 1, k |-> 1])
    /\ probe = ProbeIdle(theToken, theToken)
    /\ top = TopIdle([list |-> <<>>, supply |-> Nil])
    /\ ext = ExtractIdle(EmptyPayload)

NextAuth ==
    \/ \E w \in Workers, req \in Requests : webhook(w, req)
    \/ \E w \in Workers, fail \in NoFailure : processTokenEventDedupe(w, fail)
    \/ \E w \in Workers : processTokenEventResolve(w)
    \/ \E w \in Workers : processTokenEventSend(w)
    \/ \E w \in Workers, fail \in NoFailure : processTokenEventMark(w, fail)
    \/ TimePasses

SpecAuth == InitAuth /\ [][NextAuth]_vars

InitLive ==
    /\ \E s \in LiveSetups : InitPipeline(s)
    /\ calc = CalcIdle([amount |-> 0, total |-> 1, k |-> 1])
    /\ probe = ProbeIdle(theToken, theToken)
    /\ top = TopIdle([list |-> <<>>, supply |-> Nil])
    /\ ext = ExtractIdle(EmptyPayload)

NextLive ==
    \/ \E w \in Workers : Advance(w)
    \/ \E w \in Workers : callNeverReturns(w)

\* setInterval keeps firing and deliveries keep coming, and the event loop runs
\* the continuation of every await whose call returned: each worker's enabled
\* step is eventually taken
SpecLive == InitLive /\ [][NextLive]_vars /\ \A w \in Workers : WF_vars(Advance(w))

-----------------------------------------------------------------------------
(* Properties *)

AllPresent(m) ==
    /\ Present(m.marketcap) /\ Present(m.holders) /\ Present(m.top10)
    /\ Present(m.dev) /\ Present(m.volume)

\* the four thresholds other than the volume rule hold of m
OtherThresholdsMet(m) ==
    /\ Present(m.marketcap) /\ m.marketcap >= MIN_MARKETCAP
    /\ Present(m.holders) /\ m.holders >= MIN_HOLDERS
    /\ Present(m.top10) /\ m.top10 < MAX_TOP10_PERCENT * PctUnit
    /\ Present(m.dev) /\ m.dev < MAX_DEV_PERCENT * PctUnit

\* all five metrics are present and satisfy their thresholds
Qualifies(m) == OtherThresholdsMet(m) /\ Present(m.volume) /\ m.volume > 0

\* the metrics of the token as its data sources give them
TokenMetrics ==
    IF variant = "hook" THEN processTokenEventPlan(world).m ELSE world.feed

\* C1: of two evaluations of the same token that are in flight together, at most
\* one has written the ledger key and at most one has invoked the Telegram sink
\* (the "no more than one" half of "exactly one claim, exactly one dispatch").
C1_OneClaimOneDispatch ==
    \A w, u \in Workers :
        (w # u /\ pc[w] # "idle" /\ pc[u] # "idle") =>
            /\ ~(loc[w].claimed /\ loc[u].claimed)
            /\ ~(loc[w].dispatched /\ loc[u].dispatched)

\* C2: with one evaluation at a time and a ledger whose calls all succeed, the
\* Telegram sink is invoked at most once for the token while an entry written
\* for its key is unexpired, whether the send succeeded or failed.
C2_OneSendPerWindow ==
    \A k \in DOMAIN ledger : ledger[k].sends <= 1

\* C2 witness: a later cycle found the unexpired entry of a token that was sent
\* once within that entry's window, and skipped the token.
C2_SkippedInWindow ==
    \E w \in Workers :
        /\ Finished(w) /\ loc[w].outcome = "skipped"
        /\ Unexpired(tokenKey) /\ ledger[tokenKey].sends = 1

\* C3: in processToken and processTokenEvent, an evaluation whose single send
\* failed has written no processed mark for the token.
C3_FailedSendLeavesNoMark ==
    \A w \in Workers :
        (variant \in {"poll", "hook"} /\ Finished(w)
           /\ loc[w].dispatched /\ ~loc[w].delivered) => ~loc[w].claimed

\* C4: in every ingestion path, an evaluation invokes the Telegram sink only if
\* all five metrics of the token are present.
C4_DispatchNeedsAllFive ==
    \A w \in Workers : loc[w].dispatched => AllPresent(loc[w].m)

C6_QualifyingTokenNotified ==
    \A w \in Workers :
        (Finished(w) /\ loc[w].fresh /\ Qualifies(TokenMetrics))
            => (loc[w].dispatched /\ loc[w].claimed)

\* C7: in every ingestion path, a dispatched token has top10Percent other than
\* maxTop10Pct and devPercent other than maxDevPct (the concentration limits are
\* strict), and a token with marketcap = minMarketcap and holders = minHolders
\* that meets the other thresholds passes the filter (the size limits are
\* inclusive).
C7_StrictAndInclusive ==
    \A w \in Workers :
        /\ loc[w].dispatched =>
              /\ loc[w].m.top10 # MAX_TOP10_PERCENT * PctUnit
              /\ loc[w].m.dev # MAX_DEV_PERCENT * PctUnit
        /\ (loc[w].m.marketcap = MIN_MARKETCAP /\ loc[w].m.holders = MIN_HOLDERS
              /\ Qualifies(loc[w].m)) => loc[w].passed

\* C8: for amount >= 0 and total > 0, percentBigInt(amount, total) is q / 100
\* with q the truncated quotient of amount * 10000 by total:
\* q * total <= amount * 10000 < (q + 1) * total.
C8_TruncatedQuotient ==
    (calc.done /\ calc.args.amount >= 0 /\ calc.args.total > 0) =>
        LET q == calc.out \div (PctUnit \div 100)
        IN  /\ calc.out = q * (PctUnit \div 100)
            /\ q * calc.args.total <= calc.args.amount * 10000
            /\ calc.args.amount * 10000 < (q + 1) * calc.args.total

\* C8 witness: percentBigInt(2, 3) was computed and is 66.66 (66.67 if rounded).
C8_TwoThirds ==
    /\ calc.done /\ calc.args.amount = 2 /\ calc.args.total = 3
    /\ calc.out = 6666 * (PctUnit \div 100)

\* C9: percentBigInt returns absent, not a number, whenever total <= 0.
C9_AbsentForNonPositiveTotal ==
    (calc.done /\ calc.args.total <= 0) => calc.out = Nil

\* C10: for amount >= 0, total > 0 and k > 0,
\* percentBigInt(k * amount, k * total) = percentBigInt(amount, total).
C10_ScaleInvariant ==
    (calc.done /\ calc.args.amount >= 0 /\ calc.args.total > 0 /\ calc.args.k > 0) =>
        calc.outScaled = calc.out

\* C10 witness: percentBigInt(3, 9) was computed next to percentBigInt(1, 3),
\* and both are 33.33.
C10_ScaledThird ==
    /\ calc.done /\ calc.args.amount = 1 /\ calc.args.total = 3 /\ calc.args.k = 3
    /\ calc.outScaled = 3333 * (PctUnit \div 100)

\* C11: in every state the existence check of the ledger answers "present" for
\* the token's key exactly when an entry written for it is within its TTL:
\* present right after the claim, absent once the TTL has run out.
C11_ExpiredEntryAbsent ==
    ledgerHas(tokenKey) <=> Unexpired(tokenKey)

\* C12: in processToken and processTokenEvent, of the occurrences of one token
\* in one ingestion batch at most one is evaluated to completion (metric
\* resolution, filter, dispatch decision), whatever the first one's outcome.
C12_OneEvaluationPerBatch ==
    \A w \in Workers : variant \in {"poll", "hook"} => loc[w].evals <= 1

\* C13: an evaluation that read a total supply of 0 or none (both percentages
\* asked of Helius in processToken; the metadata in processTokenEvent) leaves
\* top10Percent and devPercent absent, fails the filter, sends nothing, and has
\* written a mark for the key when it ends.
C13_ZeroSupplyMarked ==
    \A w \in Workers :
        loc[w].nosupply =>
            /\ loc[w].m.top10 = Nil /\ loc[w].m.dev = Nil
            /\ ~loc[w].passed /\ ~loc[w].dispatched
            /\ (Finished(w) => loc[w].claimed)

\* the evaluation ended without the data a verdict needs
DataUnavailable(l) ==
    \/ l.outcome \in {"nometa", "noholders", "nosupply"}
    \/ l.outcome = "rejected" /\ ~AllPresent(l.m)

\* all five metrics were there and a threshold was violated
ConfirmedNonMatch(l) == l.outcome = "rejected" /\ AllPresent(l.m)

\* the TTL the running program gives the mark of a confirmed non-match
ConfirmedTTL == IF variant = "hook" THEN TTL_REJECTED ELSE DEDUPE_TTL_SEC

\* C14: in processToken and processTokenEvent, a mark written for a
\* data-unavailable outcome has a TTL strictly below that of the marks of
\* confirmed outcomes, and every confirmed non-match and every delivered match
\* ends with a mark of at least that TTL.
C14_RetryMarkIsShorter ==
    \A w \in Workers :
        (variant \in {"poll", "hook"} /\ Finished(w)) =>
            /\ (loc[w].claimed /\ DataUnavailable(loc[w])) => loc[w].ttl < ConfirmedTTL
            /\ (ConfirmedNonMatch(loc[w]) \/ loc[w].delivered) =>
                   (loc[w].claimed /\ loc[w].ttl >= ConfirmedTTL)

C16_LedgerFailureFailsOpen ==
    \A w \in Workers : loc[w].outcome # "error"

\* C17: in every ingestion path a run over a batch ends only when every token
\* of the batch has been taken up: no run is over with tokens still ahead.
C17_BatchRunsThrough ==
    \A w \in Workers : pc[w] = "idle" => loc[w].left = 0

SameToken(t, u) ==
    /\ toLowerCase(t.chain) = toLowerCase(u.chain)
    /\ toLowerCase(t.address) = toLowerCase(u.address)

\* C19: in every ingestion path two candidate tokens get the same ledger key
\* exactly when they have the same chain and the same address up to letter
\* case.
C19_KeyIffSameToken ==
    probe.done => (probe.same <=> SameToken(probe.a, probe.b))

\* index of the creator's entry in a holder list, 0 if there is none
CreatorIndex(list, creator, same(_, _)) ==
    LET hit == { i \in 1..Len(list) : same(list[i].address, creator) }
    IN  IF creator # "" /\ hit # {} THEN CHOOSE i \in hit : \A j \in hit : i <= j ELSE 0

\* the holder whose share devPercent is to be: the creator if known and among
\* the holders, else the first (largest) holder of the list
DevHolder(list, creator, same(_, _)) ==
    IF CreatorIndex(list, creator, same) # 0
    THEN list[CreatorIndex(list, creator, same)]
    ELSE list[1]

\* C20: with a non-empty holder list, devPercent is the creator's share of the
\* total supply when the creator is known and among the holders, and the share
\* of the largest holder otherwise, in computeDevHoldPercent and in
\* processTokenEvent.
C20_DevPercentOfCreatorOrLargest ==
    /\ \A ans \in HeliusAnswers, c \in Creators :
          (ans.ok /\ Truthy(ans.supply) /\ ans.largest # <<>>) =>
              computeDevHoldPercent(ans, c) =
                  PercentToFixed4(DevHolder(ans.largest, c, LAMBDA x, y : x = y).balance,
                                  ans.supply)
    /\ \A w \in Workers :
          (variant = "hook" /\ loc[w].outcome \in {"rejected", "passed", "sent"}
              /\ world.holdersRaw.holders # <<>>) =>
              loc[w].m.dev =
                  percentBigInt(DevHolder(world.holdersRaw.holders, world.creator,
                                          LAMBDA x, y : toLowerCase(x) = toLowerCase(y)).balance,
                                totalSupplyBigOf(world.meta))

\* the sum of the n largest balances of a holder list (all when it has fewer)
RECURSIVE SumLargest(_, _)
SumLargest(list, n) ==
    IF n = 0 \/ list = <<>> THEN 0
    ELSE LET i == CHOOSE j \in 1..Len(list) :
                    \A k \in 1..Len(list) : list[k].balance <= list[j].balance
         IN  list[i].balance
             + SumLargest(SubSeq(list, 1, i - 1) \o SubSeq(list, i + 1, Len(list)), n - 1)

\* C21: with a positive total supply, top10Percent is the share of the supply
\* held by the 10 largest balances of the holder list (all of them when there
\* are fewer than 10), whatever the order the provider returned the holders in,
\* in processTokenEvent and in computeTop10PercentViaHelius.
C21_TopTenLargest ==
    (top.done /\ Truthy(top.args.supply)) =>
        /\ top.hook = percentBigInt(SumLargest(top.args.list, TopN), top.args.supply)
        /\ top.helius = PercentToFixed4(SumLargest(top.args.list, TopN), top.args.supply)

\* C22: in every ingestion path an evaluation that is about to query a provider,
\* to apply the filter or to send has already written the ledger key of its
\* token (the claim comes first), and an evaluation that invoked the Telegram
\* sink had resolved its metrics and passed the filter before.
C22_ClaimBeforeResolveBeforeDispatch ==
    \A w \in Workers :
        /\ pc[w] \in {"p_resolve", "h_resolve", "m_send", "p_send", "h_send"} => loc[w].claimed
        /\ loc[w].dispatched => (loc[w].claimed /\ loc[w].passed)

\* C23: once an external call of one evaluation hangs for ever, evaluations of
\* other tokens still start again and again (later ingestion cycles go on), and
\* every run over a batch still gets to the batch's last token.
C23_StuckCallBlocksNothing ==
    /\ []((\E w \in Workers : pc[w] = "stuck")
            => <>(\E u \in Workers : pc[u] \in {"m_get", "p_was", "h_get"}))
    /\ \A w \in Workers : [](loc[w].left > 0 => <>(loc[w].left = 0))

\* C24: the program itself bounds the evaluations in flight at once (a worker
\* pool): however the deliveries and timer ticks overlap, they never take up
\* all MaxWorkers slots the model offers.
C24_InFlightBelowCapacity ==
    Cardinality(InFlight) < MaxWorkers

\* processToken of worker w has resolved the metrics of the token
ResolvedByProcessToken(w) ==
    /\ variant = "poll"
    /\ pc[w] \in {"p_send", "p_mark"} \/ loc[w].outcome \in {"rejected", "sent"}

\* C25: in processToken each of the five metrics that the primary token record
\* has, a value of 0 included, is resolved to the record's value: a fallback
\* provider's value is never put in its place.
C25_PrimaryValueKept ==
    \A w \in Workers :
        ResolvedByProcessToken(w) =>
            /\ Present(world.feed.marketcap) => loc[w].m.marketcap = world.feed.marketcap
            /\ Present(world.feed.holders) => loc[w].m.holders = world.feed.holders
            /\ Present(world.feed.top10) => loc[w].m.top10 = world.feed.top10
            /\ Present(world.feed.dev) => loc[w].m.dev = world.feed.dev
            /\ Present(world.feed.volume) => loc[w].m.volume = world.feed.volume

\* C26: in processToken the Moralis holders endpoint is called only when the
\* token record has no holders, the Moralis price endpoint only when it lacks
\* marketcap or volume24h, and Helius is asked for top10Percent, or for
\* devPercent, only when the record lacks that metric.
C26_AskedOnlyForAbsentMetric ==
    \A w \in Workers :
        ResolvedByProcessToken(w) =>
            /\ loc[w].asked.holders => ~Present(world.feed.holders)
            /\ loc[w].asked.price =>
                  (~Present(world.feed.marketcap) \/ ~Present(world.feed.volume))
            /\ loc[w].asked.top10 => ~Present(world.feed.top10)
            /\ loc[w].asked.dev => ~Present(world.feed.dev)

\* C26 witness: processToken resolved a token whose record has holders and
\* top10Percent but no marketcap, with Moralis and Helius configured: it called
\* the price endpoint and Helius for devPercent, and neither the holders
\* endpoint nor Helius for top10Percent.
C26_AskedForTheMissingOnes ==
    \E w \in Workers :
        /\ ResolvedByProcessToken(w) /\ env.moralis /\ env.helius
        /\ Present(world.feed.holders) /\ Present(world.feed.top10)
        /\ ~Present(world.feed.marketcap) /\ ~Present(world.feed.dev)
        /\ loc[w].asked = [holders |-> FALSE, top10 |-> FALSE, dev |-> TRUE, price |-> TRUE]

\* C27: with a ledger whose calls succeed, no evaluation of processToken or
\* processTokenEvent that got past the dedupe check ends cut short by an error:
\* whatever the providers answered, it ends with a filter verdict (or the exit
\* for missing data) and with its mark written to the ledger.
C27_ProviderFailureNotFatal ==
    \A w \in Workers :
        (variant \in {"poll", "hook"} /\ Finished(w) /\ loc[w].outcome # "skipped") =>
            (loc[w].outcome # "error" /\ loc[w].claimed)

\* the signature check of a delivery fails: a secret is configured and the
\* signature header is missing or is not the HMAC-SHA256 of the raw body
SignatureFails(req) ==
    env.secret /\ (req.sig = NoHeader \/ req.sig # hmacSha256(theSecret, req.rawBody))

\* C28: a webhook delivery whose signature check fails is answered 401 and
\* starts no evaluation, writes nothing to the ledger and sends nothing; every
\* other delivery, so every delivery when no secret is configured, is accepted
\* (answered 200, its token taken up).
C28_BadSignatureDoesNothing ==
    [][ \A w \in Workers :
          (variant = "hook" /\ pc[w] = "idle" /\ loc'[w] # loc[w]) =>
              IF SignatureFails(loc'[w].req)
              THEN /\ loc'[w].status = 401
                   /\ pc' = pc /\ ledger' = ledger
                   /\ ~loc'[w].dispatched /\ ~loc'[w].claimed
                   /\ loc'[w].outcome = "none"
              ELSE /\ loc'[w].status = 200
                   /\ pc'[w] = "h_get" ]_vars

\* C28 witness: with a secret configured, a delivery signed for another body
\* was answered 401 while nothing was in flight and the ledger was empty.
C28_Answered401 ==
    \E w \in Workers :
        /\ env.secret /\ loc[w].status = 401
        /\ loc[w].req.sig = hmacSha256(theSecret, Payload(1))
        /\ loc[w].req.rawBody = Payload(2)
        /\ InFlight = {} /\ DOMAIN ledger = {}

\* C29: in the polling bot at most one pollOnce body is in progress at any time,
\* and a timer tick that fires while isPolling is true returns at once: it
\* fetches nothing, processes no token, and leaves isPolling and the ledger as
\* they are.
C29_TickWhilePollingReturns ==
    [][ /\ variant = "poll" => Cardinality({ u \in Workers : pc'[u] # "idle" }) <= 1
        /\ \A w \in Workers :
              (variant = "poll" /\ isPolling /\ pc[w] = "idle" /\ loc'[w] # loc[w]) =>
                  /\ loc'[w].early = "busy"
                  /\ isPolling' /\ pc' = pc /\ ledger' = ledger ]_vars

\* C29 witness: while a poll was waiting for the feed or working on a token, a
\* timer tick came and returned at `if (isPolling) return`.
C29_TickReturnedDuringPoll ==
    \E w, u \in Workers :
        /\ variant = "poll" /\ isPolling
        /\ pc[u] \in {"p_fetch", "p_resolve"} /\ pc[w] = "idle" /\ loc[w].early = "busy"

\* C30: in the polling bot isPolling is false whenever no pollOnce body is in
\* progress: every run that set the flag has reset it when it finished, be it
\* by its normal end, by a return (no feed URL, no tokens) or by an exception of
\* the feed request, so the next timer tick starts a new poll.
C30_IdleMeansNotPolling ==
    (variant = "poll" /\ InFlight = {}) => ~isPolling

\* C30 witness: a poll whose feed request threw has ended and isPolling is
\* false again.
C30_ResetAfterFeedError ==
    \E w \in Workers :
        /\ variant = "poll" /\ pc[w] = "idle" /\ loc[w].early = "error"
        /\ InFlight = {} /\ ~isPolling

C32_ExtractedOncePerToken ==
    ext.done =>
        /\ \A i \in 1..Len(ext.tokens) :
              ext.tokens[i].address # "" /\ ext.tokens[i].chain # ""
        /\ \A i, j \in 1..Len(ext.tokens) :
              i # j => /\ ~SameToken(ext.tokens[i], ext.tokens[j])
                       /\ ext.started[i] # ext.started[j]
        /\ Len(ext.started) = Len(ext.tokens)

\* C32 witness: a payload named one token several times, in different
\* spellings, among other tokens; the list holds fewer entries than the payload
\* named, and more than one.
C32_DuplicatesDropped ==
    /\ ext.done
    /\ Len(ext.tokens) >= 2
    /\ Len(ext.tokens) < Len(outOf(ext.payload))
    /\ \E i, j \in 1..Len(outOf(ext.payload)) :
          /\ i # j
          /\ outOf(ext.payload)[i] # outOf(ext.payload)[j]
          /\ SameToken(outOf(ext.payload)[i], outOf(ext.payload)[j])

====
